---- MODULE Spec2Model ----
(***************************************************************************)
(* Bulk verification job engine of mail-finder-frontend.                  *)
(*                                                                         *)
(* The store is the table bulk_verification_jobs; the writers are the      *)
(* worker processJob (src/app/api/bulk-verify/route.ts), the stop route    *)
(* (src/app/api/bulk-verify/stop/route.ts) and the recovery sweep          *)
(* recoverStuckJobs (lib/bulk-finder-processor, not part of the sources:   *)
(* modelled from the specification).                                       *)
(*                                                                         *)
(* A worker step is one synchronous segment of processJob that ends with   *)
(* a store request.  A store request either is applied atomically or       *)
(* throws and changes nothing; the request of the outer catch block is     *)
(* taken to succeed.  verifyEmail never throws (email-verifier.ts wraps    *)
(* its whole body in try/catch), so the per-item catch block is entered    *)
(* by a throwing updateJobProgress only.                                   *)
(*                                                                         *)
(* Around the engine: the three submission paths (submitBulkFinderJob,     *)
(* submitBulkVerificationJob, POST /api/bulk-verify) with the credit       *)
(* balance and the job queue as inputs, the requests that name a job       *)
(* (status read, trigger), the two lookups findEmailReal and               *)
(* verifyEmailReal, and the polling effect of the bulk finder page.        *)
(***************************************************************************)
EXTENDS Integers, Sequences, FiniteSets, TLC

\* ---- bounds --------------------------------------------------------------
MaxItems == 2      \* largest number of emails in a submitted job
MaxRuns == 3       \* number of processJob invocations explored
MaxRetries == 1    \* retry budget of the recovery sweep
MaxCredits == 2    \* largest credit balance of a user
MaxChains == 2     \* polling loops of the page alive at the same time
MaxFails == 6      \* consecutive failed polls explored

JobIds == {"j1"}
Workers == {"w1", "w2"}
Users == {"u1"}

\* status vocabulary of verifyEmail (EmailVerifierResult.status)
Outcomes == {"valid", "invalid", "error"}

STOP_REASON == "Job manually stopped due to insufficient credits"
STALLED == "stalled"
EXCEPTION == "exception"

\* let pollInterval = 2000; Math.min(..., 30000) of the polling effect
BASE_DELAY == 2000
MAX_DELAY == 30000

JobStatuses == {"pending", "processing", "completed", "failed"}

VARIABLES
    jobs,      \* the table bulk_verification_jobs, by job id
    wk,        \* the local variables of each processJob invocation
    runs,      \* number of processJob invocations so far
    ev,        \* the step taken last (history)
    triggers,  \* worker triggers issued so far, by job id
    backend,   \* the create requests the backend API has accepted, by job id
    credits,   \* what /api/user/credits reports for the session user
    resp,      \* the last client request and the response it got (history)
    page,      \* the state of the client page that polls a job
    lookup     \* the call of findEmailReal or verifyEmailReal in progress

vars == <<jobs, wk, runs, ev, triggers, backend, credits, resp, page, lookup>>

\* what the worker, the stop route and the recovery sweep never touch
client == <<backend, credits, resp, page, lookup>>

\* ---- records ---------------------------------------------------------------
NullResult == [status |-> "null", reason |-> "null"]

PendingItem == [status |-> "pending", result |-> NullResult]

\* a field that is missing in an object
UNDEFINED == -1

\* the k-th row of emails_data as POST /api/bulk-verify builds it: id is the
\* index of the submitted address and stands for the address as well
NewItem(k) == [id |-> k - 1, status |-> "pending", result |-> NullResult]

NoJob ==
    [exists |-> FALSE, user_id |-> "none", status |-> "none",
     emails_data |-> <<>>, current_index |-> 0, processed_emails |-> 0,
     successful_verifications |-> 0, failed_verifications |-> 0,
     error_message |-> "null", completed_at |-> FALSE,
     stale |-> FALSE, retries |-> 0]

IdleWorker ==
    [pc |-> "idle", jobId |-> "none", emailsData |-> <<>>,
     currentIndex |-> 0, i |-> 0, processedEmails |-> 0, successfulVerifications |-> 0,
     failedVerifications |-> 0]

\* read: the step issued a status read for the job the page shows
NoEvent == [op |-> "init", by |-> "none", job |-> "none", idx |-> 0,
            outcome |-> "none", fault |-> "none", read |-> FALSE]

Event(op, by, j, idx, outcome, fault) ==
    [op |-> op, by |-> by, job |-> j, idx |-> idx, outcome |-> outcome,
     fault |-> fault, read |-> FALSE]

\* worker triggers of one job: deliveries the queue has accepted, and direct
\* invocations of processJobInBackground
NoTrigger == [queued |-> 0, direct |-> 0]

\* a job the backend API has not been asked to create
NoRequest == [exists |-> FALSE, kind |-> "none", items |-> <<>>, total |-> 0]

\* the job summary a status read answers with: status, counts, items, error
\* message and completion timestamp of the row
Summary(job) ==
    [status |-> job.status,
     total_emails |-> Len(job.emails_data),
     processed_emails |-> job.processed_emails,
     successful_verifications |-> job.successful_verifications,
     failed_verifications |-> job.failed_verifications,
     emails_data |-> job.emails_data,
     error_message |-> job.error_message,
     completed_at |-> job.completed_at]

NoResponse ==
    [op |-> "none", n |-> 0, ok |-> FALSE, jobId |-> "none", reason |-> "none",
     job |-> Summary(NoJob)]

\* the request op with n items and the response it got
Response(op, n, ok, j, reason) ==
    [op |-> op, n |-> n, ok |-> ok, jobId |-> j, reason |-> reason,
     job |-> Summary(NoJob)]

\* one polling loop of the page: an instance of the polling effect
NoChain == [pc |-> "none", retryCount |-> 0, pollInterval |-> 0]

\* the page before a job is shown
NoPage ==
    [currentJob |-> "null", chains |-> [c \in 1..MaxChains |-> NoChain],
     cur |-> 0, halted |-> FALSE]

\* the result of a lookup: thrown says that it was built in a catch block
NoResult == [status |-> "none", message |-> "none", thrown |-> FALSE]

\* no lookup called yet; attempt is the loop variable, waited the delays slept
\* so far, causes what the attempts so far have thrown
NoLookup ==
    [kind |-> "none", pc |-> "idle", attempt |-> 0, waited |-> <<>>,
     causes |-> <<>>, result |-> NoResult]

\* the state shared by every specification: no job, no request, an idle page
Start ==
    /\ jobs = [j \in JobIds |-> NoJob]
    /\ wk = [w \in Workers |-> IdleWorker]
    /\ runs = 0
    /\ ev = NoEvent
    /\ triggers = [j \in JobIds |-> NoTrigger]
    /\ backend = [j \in JobIds |-> NoRequest]
    /\ resp = NoResponse
    /\ page = NoPage
    /\ lookup = NoLookup

Init ==
    /\ Start
    /\ credits = [find |-> MaxCredits, verify |-> MaxCredits]

\* ---- the job record store ------------------------------------------------
\* A row's stale flag says that its updated_at is older than the staleness
\* threshold of the recovery sweep; every update of the row refreshes it.
\* insert of POST /api/bulk-verify: n emails, every one pending
NewJob(user, n) ==
    [NoJob EXCEPT !.exists = TRUE, !.user_id = user, !.status = "pending",
                  !.emails_data = [k \in 1..n |-> NewItem(k)]]

\* .update({ status: 'processing' })
WriteProcessing(job) ==
    [job EXCEPT !.status = "processing", !.stale = FALSE]

\* updateJobProgress(current_index: i, emails_data)
WriteMark(job, i, ed) ==
    [job EXCEPT !.current_index = i, !.emails_data = ed, !.stale = FALSE]

\* updateJobProgress(current_index, processed_emails,
\*                   successful_verifications, failed_verifications, emails_data)
WriteProgress(job, i, p, s, f, ed) ==
    [job EXCEPT !.current_index = i, !.processed_emails = p,
                !.successful_verifications = s, !.failed_verifications = f,
                !.emails_data = ed, !.stale = FALSE]

\* updateJobProgress(current_index, processed_emails, failed_verifications,
\*                   emails_data) of the per-item catch block
WriteItemError(job, i, p, f, ed) ==
    [job EXCEPT !.current_index = i, !.processed_emails = p,
                !.failed_verifications = f, !.emails_data = ed,
                !.stale = FALSE]

\* mutant of WriteCompleted: the update carries no status
WriteCompletedNoStatus(job) ==
    [job EXCEPT !.completed_at = TRUE, !.stale = FALSE]

\* .update({ status: 'completed', completed_at })
WriteCompleted(job) ==
    [job EXCEPT !.status = "completed", !.completed_at = TRUE,
                !.stale = FALSE]

\* mutant of WriteFailed: the error message is dropped
WriteFailedNoMessage(job) ==
    [job EXCEPT !.status = "failed", !.stale = FALSE]

\* .update({ status: 'failed', error_message }) of the outer catch block
WriteFailed(job) ==
    [job EXCEPT !.status = "failed", !.error_message = EXCEPTION,
                !.stale = FALSE]

\* mutant of StopJob: pending jobs are not matched by the status filter
StopJobProcessingOnly(job, user) ==
    IF job.exists /\ job.user_id = user /\ job.status = "processing"
    THEN [job EXCEPT !.status = "failed", !.error_message = STOP_REASON,
                     !.stale = FALSE]
    ELSE job

\* mutant of StopJob: the update is not filtered by status
StopJobAnyStatus(job, user) ==
    IF job.exists /\ job.user_id = user
    THEN [job EXCEPT !.status = "failed", !.error_message = STOP_REASON,
                     !.stale = FALSE]
    ELSE job

\* the stop route's update, filtered by .in('status', ['processing','pending'])
StopJob(job, user) ==
    IF job.exists /\ job.user_id = user
       /\ job.status \in {"processing", "pending"}
    THEN [job EXCEPT !.status = "failed", !.error_message = STOP_REASON,
                     !.stale = FALSE]
    ELSE job

\* ---- processJob ------------------------------------------------------------
\* mutant of LoadJob: the run starts from re-initialised items, as POST builds them
LoadJobReset(j, job) ==
    [pc |-> "fetched", jobId |-> j,
     emailsData |-> [k \in 1..Len(job.emails_data) |-> NewItem(k)],
     currentIndex |-> job.current_index, i |-> job.current_index,
     processedEmails |-> job.processed_emails,
     successfulVerifications |-> job.successful_verifications,
     failedVerifications |-> job.failed_verifications]

\* the local variables processJob takes from the fetched row
LoadJob(j, job) ==
    [pc |-> "fetched", jobId |-> j, emailsData |-> job.emails_data,
     currentIndex |-> job.current_index, i |-> job.current_index,
     processedEmails |-> job.processed_emails,
     successfulVerifications |-> job.successful_verifications,
     failedVerifications |-> job.failed_verifications]

\* mutant of NextPending: the item at the loop index is taken whatever its status
NextPendingNoSkip(ed, i) == IF i >= Len(ed) THEN Len(ed) ELSE i

\* for (i = ...; i < emailsData.length; i++) if (status !== 'pending') continue
\* the first index >= i whose item is pending, emailsData.length if none
RECURSIVE NextPending(_, _)
NextPending(ed, i) ==
    IF i >= Len(ed) THEN Len(ed)
    ELSE IF ed[i + 1].status = "pending" THEN i
    ELSE NextPending(ed, i + 1)

\* emailsData[i].status = 'processing'
MarkItem(ed, i) ==
    [ed EXCEPT ![i + 1].status = "processing"]

\* mutant of ResultItem: the row is rebuilt from the result alone, without
\* the fields of emailItem
ResultItemNoSpread(ed, i, outcome) ==
    [ed EXCEPT ![i + 1] =
        [id |-> UNDEFINED, status |-> outcome,
         result |-> [status |-> outcome, reason |-> "lookup"]]]

\* emailsData[i] = { ...emailItem, status: result.status, result: {...} }
ResultItem(ed, i, outcome) ==
    [ed EXCEPT ![i + 1] =
        [@ EXCEPT !.status = outcome,
                  !.result = [status |-> outcome, reason |-> "lookup"]]]

\* emailsData[i] = { ...emailItem, status: 'error', result: {...} }
ErrorItem(ed, i) ==
    [ed EXCEPT ![i + 1] =
        [@ EXCEPT !.status = "error",
                  !.result = [status |-> "error", reason |-> "Processing failed"]]]

\* if (result.status !== 'error') successfulVerifications++ else failedVerifications++
CountSuccess(s, outcome) == IF outcome # "error" THEN s + 1 ELSE s

CountFail(f, outcome) == IF outcome # "error" THEN f ELSE f + 1

\* which store requests of a step throw: none, the one inside the per-item
\* try block, or that one and the one of the per-item catch block
Faults == {"none", "write", "writes"}

\* POST /api/bulk-verify: a job of n >= 1 emails is inserted for the user
Submit(user, n) ==
    /\ n >= 1
    /\ \E j \in DOMAIN jobs :
        /\ ~jobs[j].exists
        /\ jobs' = [jobs EXCEPT ![j] = NewJob(user, n)]
        /\ ev' = Event("submit", user, j, n, "none", "none")
        /\ triggers' = [triggers EXCEPT ![j].direct = @ + 1]
        /\ resp' = Response("route", n, TRUE, j, "none")
    /\ UNCHANGED <<wk, runs, backend, credits, page, lookup>>

\* processJob, up to the fetch of the row: a missing row ends the run
StartJob(w, j) ==
    /\ wk[w].pc = "idle"
    /\ runs < MaxRuns
    /\ runs' = runs + 1
    /\ IF jobs[j].exists
       THEN /\ wk' = [wk EXCEPT ![w] = LoadJob(j, jobs[j])]
            /\ ev' = Event("start", w, j, jobs[j].current_index, "none", "none")
       ELSE /\ wk' = wk
            /\ ev' = Event("notfound", w, j, 0, "none", "none")
    /\ UNCHANGED <<jobs, triggers, client>>

\* the update to status 'processing'; when it throws the outer catch block
\* marks the job failed
SetProcessing(w, fault) ==
    /\ wk[w].pc = "fetched"
    /\ fault \in {"none", "write"}
    /\ LET j == wk[w].jobId IN
       IF fault = "none"
       THEN /\ jobs' = [jobs EXCEPT ![j] = WriteProcessing(@)]
            /\ wk' = [wk EXCEPT ![w].pc = "loop"]
            /\ ev' = Event("processing", w, j, wk[w].i, "none", fault)
       ELSE /\ jobs' = [jobs EXCEPT ![j] = WriteFailed(@)]
            /\ wk' = [wk EXCEPT ![w] = IdleWorker]
            /\ ev' = Event("abort", w, j, wk[w].i, "none", fault)
    /\ UNCHANGED <<runs, triggers, client>>

\* the loop up to the first pending item: the item is marked processing and
\* persisted with current_index = i.  When that write throws, the per-item
\* catch block records the item as error; when the write of the catch block
\* throws as well, the outer catch block marks the job failed.
MarkProcessing(w, fault) ==
    /\ wk[w].pc = "loop"
    /\ LET j == wk[w].jobId
           i == NextPending(wk[w].emailsData, wk[w].i)
           marked == MarkItem(wk[w].emailsData, i)
           failed == ErrorItem(marked, i)
           p == wk[w].processedEmails + 1
           f == wk[w].failedVerifications + 1
       IN
       /\ i < Len(wk[w].emailsData)
       /\ CASE fault = "none" ->
                 /\ jobs' = [jobs EXCEPT ![j] = WriteMark(@, i, marked)]
                 /\ wk' = [wk EXCEPT ![w].pc = "verify", ![w].i = i,
                                     ![w].emailsData = marked]
                 /\ ev' = Event("mark", w, j, i, "none", fault)
            [] fault = "write" ->
                 /\ jobs' = [jobs EXCEPT ![j] =
                                WriteItemError(@, i + 1, p, f, failed)]
                 /\ wk' = [wk EXCEPT ![w].i = i + 1,
                                     ![w].emailsData = failed,
                                     ![w].processedEmails = p,
                                     ![w].failedVerifications = f]
                 /\ ev' = Event("item", w, j, i, "thrown", fault)
            [] fault = "writes" ->
                 /\ jobs' = [jobs EXCEPT ![j] = WriteFailed(@)]
                 /\ wk' = [wk EXCEPT ![w] = IdleWorker]
                 /\ ev' = Event("abort", w, j, i, "thrown", fault)
    /\ UNCHANGED <<runs, triggers, client>>

\* verifyEmail returns outcome: the item, the counters and current_index = i + 1
\* are persisted together.  When that write throws, the per-item catch block
\* runs with the counters already incremented.
VerifyReturn(w, outcome, fault) ==
    /\ wk[w].pc = "verify"
    /\ LET j == wk[w].jobId
           i == wk[w].i
           done == ResultItem(wk[w].emailsData, i, outcome)
           p == wk[w].processedEmails + 1
           s == CountSuccess(wk[w].successfulVerifications, outcome)
           f == CountFail(wk[w].failedVerifications, outcome)
           failed == ErrorItem(done, i)
       IN
       CASE fault = "none" ->
              /\ jobs' = [jobs EXCEPT ![j] = WriteProgress(@, i + 1, p, s, f, done)]
              /\ wk' = [wk EXCEPT ![w].pc = "loop", ![w].i = i + 1,
                                  ![w].emailsData = done,
                                  ![w].processedEmails = p,
                                  ![w].successfulVerifications = s,
                                  ![w].failedVerifications = f]
              /\ ev' = Event("item", w, j, i, outcome, fault)
         [] fault = "write" ->
              /\ jobs' = [jobs EXCEPT ![j] =
                             WriteItemError(@, i + 1, p + 1, f + 1, failed)]
              /\ wk' = [wk EXCEPT ![w].pc = "loop", ![w].i = i + 1,
                                  ![w].emailsData = failed,
                                  ![w].processedEmails = p + 1,
                                  ![w].successfulVerifications = s,
                                  ![w].failedVerifications = f + 1]
              /\ ev' = Event("item", w, j, i, outcome, fault)
         [] fault = "writes" ->
              /\ jobs' = [jobs EXCEPT ![j] = WriteFailed(@)]
              /\ wk' = [wk EXCEPT ![w] = IdleWorker]
              /\ ev' = Event("abort", w, j, i, outcome, fault)
    /\ UNCHANGED <<runs, triggers, client>>

\* the loop has passed the last item: the job is marked completed
Complete(w, fault) ==
    /\ wk[w].pc = "loop"
    /\ fault \in {"none", "write"}
    /\ NextPending(wk[w].emailsData, wk[w].i) = Len(wk[w].emailsData)
    /\ LET j == wk[w].jobId IN
       IF fault = "none"
       THEN /\ jobs' = [jobs EXCEPT ![j] = WriteCompleted(@)]
            /\ ev' = Event("complete", w, j, wk[w].i, "none", fault)
       ELSE /\ jobs' = [jobs EXCEPT ![j] = WriteFailed(@)]
            /\ ev' = Event("abort", w, j, wk[w].i, "none", fault)
    /\ wk' = [wk EXCEPT ![w] = IdleWorker]
    /\ UNCHANGED <<runs, triggers, client>>

\* the process running processJob dies
Crash(w) ==
    /\ wk[w].pc # "idle"
    /\ wk' = [wk EXCEPT ![w] = IdleWorker]
    /\ ev' = Event("crash", w, wk[w].jobId, wk[w].i, "none", "none")
    /\ UNCHANGED <<jobs, runs, triggers, client>>

\* POST /api/bulk-verify/stop: every pending or processing job of the user
Stop(user) ==
    /\ jobs' = [j \in DOMAIN jobs |-> StopJob(jobs[j], user)]
    /\ ev' = Event("stop", user, "none", 0, "none", "none")
    /\ UNCHANGED <<wk, runs, triggers, client>>
\* ---- the recovery sweep ----------------------------------------------------
\* the job's updated_at becomes older than the staleness threshold
TimePasses(j) ==
    /\ jobs[j].exists
    /\ jobs[j].status = "processing"
    /\ ~jobs[j].stale
    /\ jobs' = [jobs EXCEPT ![j].stale = TRUE]
    /\ ev' = Event("time", "none", j, 0, "none", "none")
    /\ UNCHANGED <<wk, runs, triggers, client>>

\* mutant of RecoverJob: the sweep does not look at updated_at
RecoverJobAnyProcessing(job) ==
    IF job.exists /\ job.status = "processing"
    THEN IF job.retries < MaxRetries
         THEN [job EXCEPT !.status = "pending", !.retries = @ + 1,
                          !.stale = FALSE]
         ELSE [job EXCEPT !.status = "failed", !.error_message = STALLED,
                          !.stale = FALSE]
    ELSE job

\* mutant of RecoverJob: the retry budget is not looked at
RecoverJobUnbounded(job) ==
    IF job.exists /\ job.status = "processing" /\ job.stale
    THEN [job EXCEPT !.status = "pending", !.retries = @ + 1, !.stale = FALSE]
    ELSE job

\* a stale processing job is reset to pending while its retry budget lasts,
\* and marked failed with reason "stalled" after that
RecoverJob(job) ==
    IF job.exists /\ job.status = "processing" /\ job.stale
    THEN IF job.retries < MaxRetries
         THEN [job EXCEPT !.status = "pending", !.retries = @ + 1,
                          !.stale = FALSE]
         ELSE [job EXCEPT !.status = "failed", !.error_message = STALLED,
                          !.stale = FALSE]
    ELSE job

\* a reset job gets a worker trigger, or it would go stale again
RecoverTrigger(job, t) ==
    IF RecoverJob(job).status = "pending" /\ job.status = "processing"
    THEN [t EXCEPT !.queued = @ + 1]
    ELSE t

\* the sweep over every job; the event counts the jobs it selected
RecoverStuckJobs ==
    /\ jobs' = [j \in JobIds |-> RecoverJob(jobs[j])]
    /\ triggers' = [j \in JobIds |-> RecoverTrigger(jobs[j], triggers[j])]
    /\ ev' = Event("recover", "none", "none",
                   Cardinality({j \in JobIds : RecoverJob(jobs[j]) # jobs[j]}),
                   "none", "none")
    /\ UNCHANGED <<wk, runs, client>>

\* ---- submission ------------------------------------------------------------------
Kinds == {"find", "verify"}

\* what the submitted rows can look like: a fresh row, or a row that carries
\* the status and the result of an earlier run
InputItems ==
    {PendingItem,
     [status |-> "valid", result |-> [status |-> "valid", reason |-> "lookup"]]}

\* the argument of a submission: something that is not an array, or an array
\* of up to MaxItems rows
Inputs ==
    {[isArray |-> FALSE, items |-> <<>>]} \cup
    {[isArray |-> TRUE, items |-> b] :
        b \in UNION {[1..n -> InputItems] : n \in 0..MaxItems}}

\* the number of items of a submission
Size(input) == IF input.isArray THEN Len(input.items) ELSE 0

\* mutant of ValidBatch: the length of the array is not looked at
ValidBatchAnyArray(input) == input.isArray

\* !(!requests || !Array.isArray(requests) || requests.length === 0)
ValidBatch(input) == input.isArray /\ Len(input.items) # 0

\* availableCredits === 0 || availableCredits < requiredCredits
QuotaShort(availableCredits, requiredCredits) ==
    availableCredits = 0 \/ availableCredits < requiredCredits

\* mutant of CreateRequest: the rows are sent as they were submitted
CreateRequestAsGiven(items) == items

\* requests.map(request => ({ ...request, status: 'pending' }))
CreateRequest(items) ==
    [k \in 1..Len(items) |-> [items[k] EXCEPT !.status = "pending"]]

\* what jobQueue.addJob does: it returns true, returns false, or throws
QueueOutcomes == {"true", "false", "throws"}

\* mutant of Dispatch: no fallback to a direct invocation
DispatchQueueOnly(t, queue) ==
    IF queue = "true" THEN [t EXCEPT !.queued = @ + 1] ELSE t

\* addJob(jobId), and processJobInBackground(jobId) when it returned false or threw
Dispatch(t, queue) ==
    IF queue = "true"
    THEN [t EXCEPT !.queued = @ + 1]
    ELSE [t EXCEPT !.direct = @ + 1]

\* mutant of Reject: after a failed creation the submission goes on to the
\* dispatch of the id it had generated
RejectAndDispatch(op, user, n, reason) ==
    /\ resp' = Response(op, n, FALSE, "none", reason)
    /\ ev' = Event("reject", user, "none", n, "none", reason)
    /\ triggers' = [j \in JobIds |->
                       IF reason \in {"create", "insert"}
                       THEN [triggers[j] EXCEPT !.direct = @ + 1]
                       ELSE triggers[j]]
    /\ UNCHANGED <<jobs, wk, runs, backend, credits, page, lookup>>

\* a submission that creates nothing: the response carries the reason
Reject(op, user, n, reason) ==
    /\ resp' = Response(op, n, FALSE, "none", reason)
    /\ ev' = Event("reject", user, "none", n, "none", reason)
    /\ UNCHANGED <<jobs, wk, runs, triggers, backend, credits, page, lookup>>

\* the job id is new to the backend API and to the table
Fresh(j) == ~jobs[j].exists /\ ~backend[j].exists

\* submitBulkFinderJob: creditsOk and createOk say whether /api/user/credits
\* and /api/bulk-finder/create answered with success, queue what addJob did
submitBulkFinderJob(user, input) ==
    LET n == Size(input) IN
    IF ~ValidBatch(input) THEN Reject("finder", user, n, "invalid")
    ELSE IF user = "none" THEN Reject("finder", user, n, "unauthorized")
    ELSE \E creditsOk \in BOOLEAN :
    IF ~creditsOk THEN Reject("finder", user, n, "credits")
    ELSE IF QuotaShort(credits.find, n) THEN Reject("finder", user, n, "quota")
    ELSE \E createOk \in BOOLEAN :
    IF ~createOk THEN Reject("finder", user, n, "create")
    ELSE \E j \in JobIds, queue \in QueueOutcomes :
            /\ Fresh(j)
            /\ backend' = [backend EXCEPT ![j] =
                               [exists |-> TRUE, kind |-> "find",
                                items |-> CreateRequest(input.items),
                                total |-> n]]
            /\ triggers' = [triggers EXCEPT ![j] = Dispatch(@, queue)]
            /\ resp' = Response("finder", n, TRUE, j, "none")
            /\ ev' = Event("submit", user, j, n, queue, "none")
            /\ UNCHANGED <<jobs, wk, runs, credits, page, lookup>>

\* submitBulkVerificationJob: plan is what the profile request says (the plan
\* is fine, has expired, or the request failed); no dispatch is issued
submitBulkVerificationJob(user, input) ==
    LET n == Size(input) IN
    IF ~ValidBatch(input) THEN Reject("verify", user, n, "invalid")
    ELSE IF user = "none" THEN Reject("verify", user, n, "unauthorized")
    ELSE \E plan \in {"ok", "expired", "fail"} :
    IF plan = "expired" THEN Reject("verify", user, n, "plan")
    ELSE \E creditsOk \in BOOLEAN :
    IF ~creditsOk THEN Reject("verify", user, n, "credits")
    ELSE IF QuotaShort(credits.verify, n) THEN Reject("verify", user, n, "quota")
    ELSE \E createOk \in BOOLEAN :
    IF ~createOk THEN Reject("verify", user, n, "create")
    ELSE \E j \in JobIds :
            /\ Fresh(j)
            /\ backend' = [backend EXCEPT ![j] =
                               [exists |-> TRUE, kind |-> "verify",
                                items |-> CreateRequest(input.items),
                                total |-> n]]
            /\ resp' = Response("verify", n, TRUE, j, "none")
            /\ ev' = Event("submit", user, j, n, "none", "none")
            /\ UNCHANGED <<jobs, wk, runs, triggers, credits, page, lookup>>

\* POST /api/bulk-verify as a whole: the rejections, and the insert of Submit
PostBulkVerify(user, input) ==
    LET n == Size(input) IN
    IF ~ValidBatch(input) THEN Reject("route", user, n, "invalid")
    ELSE IF user = "none" THEN Reject("route", user, n, "unauthorized")
    ELSE \E insertOk \in BOOLEAN :
    IF ~insertOk THEN Reject("route", user, n, "insert")
    ELSE Submit(user, n)

\* ---- requests that name a job ---------------------------------------------------
\* the signed-in users that send requests
Accounts == {"u1", "u2"}

\* .eq('id', jobId).eq('user_id', user.id).single()
FindOwned(j, user) == jobs[j].exists /\ jobs[j].user_id = user

\* GET /api/bulk-verify?jobId=: the job summary, or 404 when no row matches
\* the id and the user
GetJob(user, j) ==
    /\ resp' = IF FindOwned(j, user)
               THEN [Response("status", jobs[j].processed_emails, TRUE, j, jobs[j].status)
                        EXCEPT !.job = Summary(jobs[j])]
               ELSE Response("status", 0, FALSE, "none", "notfound")
    /\ ev' = [Event("get", user, j, 0, "none", "none") EXCEPT !.read = TRUE]
    /\ UNCHANGED <<jobs, wk, runs, triggers, backend, credits, page, lookup>>

\* what fetch of the job at the backend API does: it answers ok with the job
\* in camelCase or in snake_case fields, answers not ok, or throws
FetchOutcomes == {"camel", "snake", "notok", "throws"}

\* jobData.processedEmails || jobData.processed_emails, for a count v that
\* the answer carries in the fields of the given format only
PickCount(format, v) ==
    IF format = "camel" /\ v = 0 THEN UNDEFINED ELSE v

\* the BulkVerificationJob built from jobData
ConvertJob(format, data) ==
    [data EXCEPT !.total_emails = PickCount(format, @),
                 !.processed_emails = PickCount(format, @),
                 !.successful_verifications = PickCount(format, @),
                 !.failed_verifications = PickCount(format, @)]

\* a status read that answers with an error
ReadError(user, j, reader, fetch, reason) ==
    /\ resp' = Response("status", 0, FALSE, "none", reason)
    /\ ev' = [Event("get", user, j, 0, reader, fetch) EXCEPT !.read = TRUE]
    /\ UNCHANGED <<jobs, wk, runs, triggers, backend, credits, page, lookup>>

\* getBulkVerificationJobStatus: the job is fetched and converted inside one
\* try block
getBulkVerificationJobStatus(user, j) ==
    IF user = "none" THEN ReadError(user, j, "verify", "none", "unauthorized")
    ELSE \E fetch \in FetchOutcomes :
    IF fetch \in {"notok", "throws"} \/ ~FindOwned(j, user)
    THEN ReadError(user, j, "verify",
                   IF fetch \in {"notok", "throws"} THEN fetch ELSE "none",
                   "notfound")
    ELSE /\ resp' = [Response("status", jobs[j].processed_emails, TRUE, j, jobs[j].status)
                        EXCEPT !.job = ConvertJob(fetch, Summary(jobs[j]))]
         /\ ev' = [Event("get", user, j, 0, "verify", "none") EXCEPT !.read = TRUE]
         /\ UNCHANGED <<jobs, wk, runs, triggers, backend, credits, page, lookup>>

\* getBulkFinderJobStatus: jobData is declared inside the inner try block and
\* read after it, where no such name is in scope; the ReferenceError is
\* caught by the outer catch block
getBulkFinderJobStatus(user, j) ==
    IF user = "none" THEN ReadError(user, j, "finder", "none", "unauthorized")
    ELSE \E fetch \in FetchOutcomes :
    IF fetch \in {"notok", "throws"} \/ ~FindOwned(j, user)
    THEN ReadError(user, j, "finder",
                   IF fetch \in {"notok", "throws"} THEN fetch ELSE "none",
                   "notfound")
    ELSE ReadError(user, j, "finder", "none", "failed")

\* POST of the jobs route with { jobId }: the user is signed in, and
\* processJobInBackground(jobId) is started for whatever id was sent; the
\* invocation fetches the row by its id
TriggerJob(user, j) ==
    /\ wk["w1"].pc = "idle"
    /\ runs < MaxRuns
    /\ runs' = runs + 1
    /\ triggers' = [triggers EXCEPT ![j].direct = @ + 1]
    /\ wk' = IF jobs[j].exists
             THEN [wk EXCEPT !["w1"] = LoadJob(j, jobs[j])]
             ELSE wk
    /\ ev' = Event("trigger", user, j, 0, "none", "none")
    /\ resp' = Response("trigger", 0, TRUE, "none", "none")
    /\ UNCHANGED <<jobs, backend, credits, page, lookup>>

\* ---- requests without a signed-in user -------------------------------------------
\* who sends a request: a signed-in user, or nobody getCurrentUserFromCookies resolves
Callers == Users \cup {"none"}

\* if (!user) return 401 'Unauthorized'
Unauthorized(op, j) ==
    /\ resp' = Response(op, 0, FALSE, "none", "unauthorized")
    /\ ev' = Event(op, "none", j, 0, "none", "unauthorized")
    /\ UNCHANGED <<jobs, wk, runs, triggers, backend, credits, page, lookup>>

\* GET /api/bulk-verify?jobId=, the user resolved first
GetJobRequest(user, j) ==
    IF user = "none" THEN Unauthorized("get", j) ELSE GetJob(user, j)

\* GET of the jobs route: the jobs of the user
ListJobs(user) ==
    IF user = "none" THEN Unauthorized("list", "none")
    ELSE /\ resp' = Response("list",
                       Cardinality({j \in JobIds : FindOwned(j, user)}),
                       TRUE, "none", "none")
         /\ ev' = [Event("list", user, "none", 0, "none", "none") EXCEPT !.read = TRUE]
         /\ UNCHANGED <<jobs, wk, runs, triggers, backend, credits, page, lookup>>

\* POST /api/bulk-verify/stop, the user resolved first
StopRequest(user) ==
    IF user = "none" THEN Unauthorized("stop", "none")
    ELSE Stop(user)

\* POST of the bulk finder jobs route, the user resolved first
TriggerRequest(user, j) ==
    IF user = "none" THEN Unauthorized("trigger", j) ELSE TriggerJob(user, j)

\* POST of the bulk verification jobs route with { jobId }: no user is
\* resolved; the id is posted to /api/bulk-verify/process, and the answer is
\* success when that request answered ok
TriggerVerify(user, j, processOk) ==
    /\ triggers[j].direct < MaxRuns
    /\ triggers' = [triggers EXCEPT ![j].direct = @ + 1]
    /\ resp' = IF processOk
               THEN Response("trigger", 0, TRUE, "none", "none")
               ELSE Response("trigger", 0, FALSE, "none", "process")
    /\ ev' = Event("trigger", user, j, 0, "process", "none")
    /\ UNCHANGED <<jobs, wk, runs, backend, credits, page, lookup>>

\* ---- the lookups: findEmailReal and verifyEmailReal ------------------------------
\* const maxRetries = 3
maxRetries == 3

\* what an attempt can throw: the abort of the 30 s timer, a refused
\* connection, a response that is not ok with status 429 or with another
\* status, a body that is no JSON, a failed fetch whose message mentions 429
Causes == {"timeout", "refused", "429", "500", "parse", "refused429"}

\* error instanceof Error && error.name === 'AbortError'
isTimeout(cause) == cause = "timeout"

\* errorMessage.includes('ECONNREFUSED') || errorMessage.includes('fetch failed')
isConnectionRefused(cause) == cause \in {"refused", "refused429"}

\* errorMessage.includes('429') || errorMessage.includes('rate limit')
MentionsRateLimit(cause) == cause \in {"429", "refused429"}

\* the status field of an ok response, "undefined" when there is none
RawStatuses == {"undefined", "valid", "found", "not_found", "queued"}

\* the part of an ok response that decides the status of the result
Payloads == [email : BOOLEAN, status : RawStatuses, smtpFailed : BOOLEAN]

\* normalizedStatus of findEmailReal
NormalizeFind(payload) ==
    IF payload.email THEN "valid"
    ELSE IF payload.status = "undefined" THEN "invalid"
    ELSE IF payload.status \in {"valid", "found", "success"} THEN "valid"
    ELSE IF payload.status \in {"invalid", "not_found", "failed"} THEN "invalid"
    ELSE "error"

\* normalizedStatus of verifyEmailReal
NormalizeVerify(payload) ==
    LET raw == IF payload.status = "undefined" THEN "unknown" ELSE payload.status
    IN IF raw = "unknown" /\ payload.smtpFailed THEN "risky" ELSE raw

\* mutant of FinalMessage: the rate limit is looked at before the connection
FinalMessageRateFirst(cause) ==
    IF isTimeout(cause) THEN "Request timed out after 30 seconds"
    ELSE IF MentionsRateLimit(cause) THEN "Rate limit exceeded - too many requests"
    ELSE IF isConnectionRefused(cause) THEN "Unable to connect to email finder service"
    ELSE "Failed to find email due to API error"

\* finalMessage of findEmailReal
FinalMessage(cause) ==
    IF isTimeout(cause) THEN "Request timed out after 30 seconds"
    ELSE IF isConnectionRefused(cause) THEN "Unable to connect to email finder service"
    ELSE IF MentionsRateLimit(cause) THEN "Rate limit exceeded - too many requests"
    ELSE "Failed to find email due to API error"

\* reason of the result verifyEmailReal builds in its catch block
VerifyFailureReason(cause) == "Failed to verify email due to API error"

\* mutant of LastAttempt: the first failure is final
LastAttemptAlways(attempt) == TRUE

\* if (attempt === maxRetries)
LastAttempt(attempt) == attempt = maxRetries

\* const backoffDelay = Math.pow(2, attempt) * 1000
BackoffDelay(attempt) == 2 ^ attempt * 1000

\* findEmailReal is called: the loop starts with attempt = 1
CallFind ==
    /\ lookup.pc \in {"idle", "done"}
    /\ lookup' = [NoLookup EXCEPT !.kind = "find", !.pc = "attempt", !.attempt = 1]
    /\ UNCHANGED <<jobs, wk, runs, ev, triggers, backend, credits, resp, page>>

\* an attempt of findEmailReal gets an ok response with a JSON body: return
FindResponse(payload) ==
    /\ lookup.kind = "find"
    /\ lookup.pc = "attempt"
    /\ lookup' = [lookup EXCEPT !.pc = "done",
                                !.result = [status |-> NormalizeFind(payload),
                                            message |-> "response",
                                            thrown |-> FALSE]]
    /\ UNCHANGED <<jobs, wk, runs, ev, triggers, backend, credits, resp, page>>

\* an attempt of findEmailReal throws: the error result on the last attempt,
\* the backoff otherwise
FindThrows(cause) ==
    /\ lookup.kind = "find"
    /\ lookup.pc = "attempt"
    /\ lookup' =
         IF LastAttempt(lookup.attempt)
         THEN [lookup EXCEPT !.pc = "done",
                             !.causes = Append(@, cause),
                             !.result = [status |-> "error",
                                         message |-> FinalMessage(cause),
                                         thrown |-> TRUE]]
         ELSE [lookup EXCEPT !.pc = "wait", !.causes = Append(@, cause)]
    /\ UNCHANGED <<jobs, wk, runs, ev, triggers, backend, credits, resp, page>>

\* await new Promise(resolve => setTimeout(resolve, backoffDelay)); attempt++
FindBackoff ==
    /\ lookup.kind = "find"
    /\ lookup.pc = "wait"
    /\ lookup' = [lookup EXCEPT !.pc = "attempt",
                                !.waited = Append(@, BackoffDelay(lookup.attempt)),
                                !.attempt = @ + 1]
    /\ UNCHANGED <<jobs, wk, runs, ev, triggers, backend, credits, resp, page>>

\* verifyEmailReal is called: it sleeps 1 s and makes its attempt
CallVerify ==
    /\ lookup.pc \in {"idle", "done"}
    /\ lookup' = [NoLookup EXCEPT !.kind = "verify", !.pc = "attempt",
                                  !.attempt = 1, !.waited = <<1000>>]
    /\ UNCHANGED <<jobs, wk, runs, ev, triggers, backend, credits, resp, page>>

\* the attempt of verifyEmailReal gets an ok response with a JSON body
VerifyResponse(payload) ==
    /\ lookup.kind = "verify"
    /\ lookup.pc = "attempt"
    /\ lookup' = [lookup EXCEPT !.pc = "done",
                                !.result = [status |-> NormalizeVerify(payload),
                                            message |-> "response",
                                            thrown |-> FALSE]]
    /\ UNCHANGED <<jobs, wk, runs, ev, triggers, backend, credits, resp, page>>

\* the attempt of verifyEmailReal throws: the catch block returns the error
\* result
VerifyThrows(cause) ==
    /\ lookup.kind = "verify"
    /\ lookup.pc = "attempt"
    /\ lookup' = [lookup EXCEPT !.pc = "done",
                                !.causes = Append(@, cause),
                                !.result = [status |-> "error",
                                            message |-> VerifyFailureReason(cause),
                                            thrown |-> TRUE]]
    /\ UNCHANGED <<jobs, wk, runs, ev, triggers, backend, credits, resp, page>>

\* ---- processJob called with any id -----------------------------------------------
\* the ids processJob can be called with: those of the table and one that no
\* row carries
AnyIds == JobIds \cup {"unknown"}

\* mutant of FetchRow: the select is not filtered by the id
FetchRowAny(id) ==
    IF \E j \in JobIds : jobs[j].exists
    THEN CHOOSE j \in JobIds : jobs[j].exists
    ELSE "none"

\* .select('*').eq('id', jobId).single(): the id of the row found, "none"
\* when there is no such row
FetchRow(id) ==
    IF id \in JobIds /\ jobs[id].exists THEN id ELSE "none"

\* processJob(jobId) up to the fetch of the row, for any id: without a row
\* the run returns
StartJobById(w, id) ==
    /\ wk[w].pc = "idle"
    /\ runs < MaxRuns
    /\ runs' = runs + 1
    /\ LET row == FetchRow(id) IN
       IF row = "none"
       THEN /\ wk' = wk
            /\ ev' = Event("notfound", w, id, 0, "none", "none")
       ELSE /\ wk' = [wk EXCEPT ![w] = LoadJob(row, jobs[row])]
            /\ ev' = Event("start", w, id, jobs[row].current_index, "none", "none")
    /\ UNCHANGED <<jobs, triggers, client>>

\* ---- the status poller of the page ----------------------------------------------
\* The polling effect has no dependency array: it runs after every render of
\* the page, after the cleanup of its previous instance.  A state update made
\* by an asynchronous continuation is rendered when the continuation has run.
Min(a, b) == IF a <= b THEN a ELSE b

\* mutant of Backoff: the delay is not capped
BackoffNoCap(retryCount) == BASE_DELAY * 2 ^ (retryCount - 1)

\* Math.min(2000 * Math.pow(2, retryCount - 1), 30000)
Backoff(retryCount) == Min(BASE_DELAY * 2 ^ (retryCount - 1), MAX_DELAY)

\* currentJob.status === 'pending' || currentJob.status === 'processing'
Active(status) == status \in {"pending", "processing"}

\* the cleanup of an effect instance: clearTimeout(timeoutId); a request in
\* flight is not cancelled
Cleanup(chains, cur) ==
    IF cur # 0 /\ chains[cur].pc = "timer"
    THEN [chains EXCEPT ![cur] = NoChain]
    ELSE chains

HasFree(chains) == \E c \in 1..MaxChains : chains[c].pc = "none"

FreeChain(chains) ==
    CHOOSE c \in 1..MaxChains :
        /\ chains[c].pc = "none"
        /\ \A d \in 1..(c - 1) : chains[d].pc # "none"

\* setCurrentJobAndRef(job) and the render it causes: the cleanup of the
\* current effect instance, then the effect, which starts polling at once
\* when the job is active
setCurrentJobAndRef(pg, status) ==
    LET cleaned == Cleanup(pg.chains, pg.cur)
        c == FreeChain(cleaned)
    IN
    IF Active(status)
    THEN [pg EXCEPT !.currentJob = status,
                    !.chains = [cleaned EXCEPT ![c] =
                                   [pc |-> "inflight", retryCount |-> 0,
                                    pollInterval |-> BASE_DELAY]],
                    !.cur = c]
    ELSE [pg EXCEPT !.currentJob = status, !.chains = cleaned, !.cur = 0]

\* whether the render of a state update can start a polling loop
CanRender(pg, status) ==
    Active(status) => HasFree(Cleanup(pg.chains, pg.cur))

\* the page gets a job to show (submitJob, or loadUserJobs at mount)
ShowJob(status) ==
    /\ page.currentJob = "null"
    /\ ~page.halted
    /\ \A c \in 1..MaxChains : page.chains[c].pc = "none"
    /\ page' = setCurrentJobAndRef(page, status)
    /\ ev' = [Event("show", "page", "none", 0, status, "none")
                  EXCEPT !.read = Active(status)]
    /\ UNCHANGED <<jobs, wk, runs, triggers, backend, credits, resp, lookup>>

\* mutant of AfterFailure: the loop gives up at the third failure in a row
AfterFailureGivesUp(retryCount) ==
    IF retryCount >= 3
    THEN NoChain
    ELSE [pc |-> "timer", retryCount |-> retryCount,
          pollInterval |-> Backoff(retryCount)]

\* a failed poll: the backoff, and timeoutId = setTimeout(pollJobStatus, pollInterval)
AfterFailure(retryCount) ==
    [pc |-> "timer", retryCount |-> retryCount,
     pollInterval |-> Backoff(retryCount)]

\* the continuation of pollJobStatus after getBulkFinderJobStatus has answered:
\* result is the status of the job, or "fail" for a failed poll
PollResult(c, result) ==
    /\ page.chains[c].pc = "inflight"
    /\ IF result = "fail"
       THEN LET retryCount == page.chains[c].retryCount + 1 IN
            /\ retryCount <= MaxFails
            /\ page' = [page EXCEPT !.chains[c] = AfterFailure(retryCount)]
            /\ ev' = Event("polled", "page", "none", c, result, "none")
       ELSE IF Active(result)
       THEN LET scheduled == [page EXCEPT !.chains[c] =
                                 [pc |-> "timer", retryCount |-> 0,
                                  pollInterval |-> BASE_DELAY]]
            IN
            /\ CanRender(scheduled, result)
            /\ page' = setCurrentJobAndRef(scheduled, result)
            /\ ev' = [Event("polled", "page", "none", c, result, "none")
                          EXCEPT !.read = TRUE]
       ELSE LET ended == [page EXCEPT !.chains[c] = NoChain, !.halted = TRUE] IN
            /\ page' = setCurrentJobAndRef(ended, result)
            /\ ev' = Event("polled", "page", "none", c, result, "none")
    /\ UNCHANGED <<jobs, wk, runs, triggers, backend, credits, resp, lookup>>

\* the timer of a polling loop fires: pollJobStatus issues the next status read
pollJobStatus(c) ==
    /\ page.chains[c].pc = "timer"
    /\ page' = [page EXCEPT !.chains[c].pc = "inflight"]
    /\ ev' = [Event("poll", "page", "none", c, "none", "none")
                  EXCEPT !.read = TRUE]
    /\ UNCHANGED <<jobs, wk, runs, triggers, backend, credits, resp, lookup>>

\* the user stops the job: when stopBulkFinderJob reports success the page
\* drops the job
stopJob(success) ==
    /\ page.currentJob # "null"
    /\ IF success
       THEN page' = setCurrentJobAndRef([page EXCEPT !.halted = TRUE], "null")
       ELSE page' = page
    /\ ev' = Event("stopJob", "page", "none", 0,
                   IF success THEN "stopped" ELSE "fail", "none")
    /\ UNCHANGED <<jobs, wk, runs, triggers, backend, credits, resp, lookup>>

\* ---- specifications ----------------------------------------------------------
\* every interleaving of up to two processJob invocations with stop and
\* recovery, no store request throwing
Next ==
    \/ \E u \in Users, n \in 1..MaxItems : Submit(u, n)
    \/ \E w \in Workers, j \in JobIds : StartJob(w, j)
    \/ \E w \in Workers : SetProcessing(w, "none")
    \/ \E w \in Workers : MarkProcessing(w, "none")
    \/ \E w \in Workers, o \in Outcomes : VerifyReturn(w, o, "none")
    \/ \E w \in Workers : Complete(w, "none")
    \/ \E w \in Workers : Crash(w)
    \/ \E u \in Users : Stop(u)
    \/ \E j \in JobIds : TimePasses(j)
    \/ RecoverStuckJobs

Spec == Init /\ [][Next]_vars

\* the single active worker convention: processJob is invoked again only
\* after the previous invocation has returned or died; store requests may throw
StartJobSeq(j) ==
    /\ \A w \in Workers : wk[w].pc = "idle"
    /\ StartJob("w1", j)

NextSeq ==
    \/ \E u \in Users, n \in 1..MaxItems : Submit(u, n)
    \/ \E j \in JobIds : StartJobSeq(j)
    \/ \E fault \in Faults : SetProcessing("w1", fault)
    \/ \E fault \in Faults : MarkProcessing("w1", fault)
    \/ \E o \in Outcomes, fault \in Faults : VerifyReturn("w1", o, fault)
    \/ \E fault \in Faults : Complete("w1", fault)
    \/ Crash("w1")
    \/ \E u \in Users : Stop(u)
    \/ \E j \in JobIds : TimePasses(j)
    \/ RecoverStuckJobs

SpecSeq == Init /\ [][NextSeq]_vars

\* a worker that dies and is run again after the recovery sweep has reset the
\* job: processJob is dispatched for pending jobs only, one invocation at a
\* time, no store request throws and there is no manual stop
StartPendingJob(j) ==
    /\ jobs[j].status = "pending"
    /\ StartJobSeq(j)

NextRecover ==
    \/ \E u \in Users, n \in 1..MaxItems : Submit(u, n)
    \/ \E j \in JobIds : StartPendingJob(j)
    \/ SetProcessing("w1", "none")
    \/ MarkProcessing("w1", "none")
    \/ \E o \in Outcomes : VerifyReturn("w1", o, "none")
    \/ Complete("w1", "none")
    \/ Crash("w1")
    \/ \E j \in JobIds : TimePasses(j)
    \/ RecoverStuckJobs

SpecRecover == Init /\ [][NextRecover]_vars

\* the three submission paths, whatever the caller sends, the credit balance
\* is and the queue does
InitSubmit ==
    /\ Start
    /\ credits \in [Kinds -> 0..MaxCredits]

NextSubmit ==
    \/ \E user \in Users \cup {"none"}, input \in Inputs :
          submitBulkFinderJob(user, input)
    \/ \E user \in Users \cup {"none"}, input \in Inputs :
          submitBulkVerificationJob(user, input)
    \/ \E user \in Users \cup {"none"}, input \in Inputs :
          PostBulkVerify(user, input)

SpecSubmit == InitSubmit /\ [][NextSubmit]_vars

\* two users sending requests with job ids of their own and of the other
\* user, one worker, no store request throwing
NextAccess ==
    \/ \E u \in Accounts, n \in 1..MaxItems : Submit(u, n)
    \/ \E u \in Accounts, j \in JobIds : GetJob(u, j)
    \/ \E u \in Accounts \cup {"none"}, j \in JobIds : getBulkVerificationJobStatus(u, j)
    \/ \E u \in Accounts \cup {"none"}, j \in JobIds : getBulkFinderJobStatus(u, j)
    \/ \E u \in Accounts : Stop(u)
    \/ \E u \in Accounts, j \in JobIds : TriggerJob(u, j)
    \/ SetProcessing("w1", "none")
    \/ MarkProcessing("w1", "none")
    \/ \E o \in Outcomes : VerifyReturn("w1", o, "none")
    \/ Complete("w1", "none")

SpecAccess == Init /\ [][NextAccess]_vars

\* the well-formed submissions of rows that were never processed
FreshInputs ==
    {[isArray |-> TRUE, items |-> [k \in 1..n |-> PendingItem]] : n \in 1..MaxItems}

\* every kind of request, sent by a signed-in user or by nobody, next to one
\* worker; no store request throws
NextAuth ==
    \/ \E user \in Callers, input \in FreshInputs :
          PostBulkVerify(user, input)
    \/ \E user \in Callers, input \in FreshInputs :
          submitBulkFinderJob(user, input)
    \/ \E user \in Callers, j \in JobIds : GetJobRequest(user, j)
    \/ \E user \in Callers : ListJobs(user)
    \/ \E user \in Callers : StopRequest(user)
    \/ \E user \in Callers, j \in JobIds : TriggerRequest(user, j)
    \/ \E user \in Callers, j \in JobIds, processOk \in BOOLEAN :
          TriggerVerify(user, j, processOk)
    \/ SetProcessing("w1", "none")
    \/ MarkProcessing("w1", "none")
    \/ \E o \in Outcomes : VerifyReturn("w1", o, "none")
    \/ Complete("w1", "none")

SpecAuth == Init /\ [][NextAuth]_vars

\* calls of the two lookups, whatever the external service answers
NextLookup ==
    \/ CallFind
    \/ \E payload \in Payloads : FindResponse(payload)
    \/ \E cause \in Causes : FindThrows(cause)
    \/ FindBackoff
    \/ CallVerify
    \/ \E payload \in Payloads : VerifyResponse(payload)
    \/ \E cause \in Causes : VerifyThrows(cause)

SpecLookup == Init /\ [][NextLookup]_vars

\* a manual stop next to a running worker: processJob is dispatched for
\* pending jobs only, so every worker step after a stop belongs to an
\* invocation that was running when the job was stopped; no store request
\* throws, and the job is read and listed at any moment
NextStop ==
    \/ \E u \in Users, n \in 1..MaxItems : Submit(u, n)
    \/ \E j \in JobIds : StartPendingJob(j)
    \/ SetProcessing("w1", "none")
    \/ MarkProcessing("w1", "none")
    \/ \E o \in Outcomes : VerifyReturn("w1", o, "none")
    \/ Complete("w1", "none")
    \/ \E u \in Users : Stop(u)
    \/ \E u \in Users, j \in JobIds : GetJob(u, j)
    \/ \E u \in Users : ListJobs(u)

SpecStop == Init /\ [][NextStop]_vars

\* processJob called a second time, with the id of the job or with an id
\* that no row carries, while the first invocation may be running; no store
\* request throws
NextById ==
    \/ \E u \in Users, n \in 1..MaxItems : Submit(u, n)
    \/ \E j \in JobIds : StartPendingJob(j)
    \/ \E id \in AnyIds : StartJobById("w2", id)
    \/ \E w \in Workers : SetProcessing(w, "none")
    \/ \E w \in Workers : MarkProcessing(w, "none")
    \/ \E w \in Workers, o \in Outcomes : VerifyReturn(w, o, "none")
    \/ \E w \in Workers : Complete(w, "none")

SpecById == Init /\ [][NextById]_vars

\* the steps of the processJob invocation w when no store request throws
WorkerStep(w) ==
    \/ SetProcessing(w, "none")
    \/ MarkProcessing(w, "none")
    \/ \E o \in Outcomes : VerifyReturn(w, o, "none")
    \/ Complete(w, "none")

\* invocations that are never interrupted, one at a time, next to the sweep:
\* no store request throws, no process dies and nobody stops a job.  An
\* invocation that has started takes its next step at some time: every await
\* of processJob returns, verifyEmail included
NextLive ==
    \/ \E u \in Users, n \in 1..MaxItems : Submit(u, n)
    \/ \E j \in JobIds : StartJobSeq(j)
    \/ WorkerStep("w1")
    \/ \E j \in JobIds : TimePasses(j)
    \/ RecoverStuckJobs

SpecLive ==
    /\ Init
    /\ [][NextLive]_vars
    /\ WF_vars(WorkerStep("w1"))

\* a table with room for two jobs
Rows == JobIds \cup {"j2"}

InitRows ==
    /\ jobs = [j \in Rows |-> NoJob]
    /\ wk = [w \in Workers |-> IdleWorker]
    /\ runs = 0
    /\ ev = NoEvent
    /\ triggers = [j \in Rows |-> NoTrigger]
    /\ backend = [j \in Rows |-> NoRequest]
    /\ credits = [find |-> MaxCredits, verify |-> MaxCredits]
    /\ resp = NoResponse
    /\ page = NoPage
    /\ lookup = NoLookup

\* two users with up to two jobs in the table, one invocation at a time,
\* started for pending jobs; no store request throws; a user stops their jobs
\* at any moment
NextRows ==
    \/ \E u \in Accounts, n \in 1..MaxItems : Submit(u, n)
    \/ \E j \in Rows : StartPendingJob(j)
    \/ WorkerStep("w1")
    \/ \E u \in Accounts : Stop(u)

SpecRows == InitRows /\ [][NextRows]_vars

\* the page polling one job, whatever the status reads answer
NextPoll ==
    \/ \E status \in JobStatuses : ShowJob(status)
    \/ \E c \in 1..MaxChains, result \in JobStatuses \cup {"fail"} :
          PollResult(c, result)
    \/ \E c \in 1..MaxChains : pollJobStatus(c)
    \/ \E success \in BOOLEAN : stopJob(success)

SpecPoll == Init /\ [][NextPoll]_vars

\* the same with the sweep invoked again and again (at application start and
\* before every listing of a user's jobs) and time passing; no dispatch is
\* ever guaranteed to be delivered
SpecRecoverFair ==
    /\ SpecRecover
    /\ WF_vars(\E j \in JobIds : TimePasses(j))
    /\ WF_vars(RecoverStuckJobs)

TypeOK ==
    /\ runs \in 0..MaxRuns
    /\ \A j \in JobIds :
        /\ jobs[j].status \in {"none", "pending", "processing", "completed", "failed"}
        /\ jobs[j].current_index \in 0..Len(jobs[j].emails_data)
\* ---- claims ------------------------------------------------------------------
Cursor(j) == jobs[j].current_index

NumItems(j) == Len(jobs[j].emails_data)

Terminal(item) == item.status \notin {"pending", "processing"}

\* C1: in every reachable state of every job, 0 <= cursor <= len(items) and
\* processedCount = successCount + failCount <= len(items)
C1_CursorAndAggregates ==
    \A j \in JobIds :
        jobs[j].exists =>
            /\ 0 <= Cursor(j)
            /\ Cursor(j) <= NumItems(j)
            /\ jobs[j].processed_emails =
                   jobs[j].successful_verifications + jobs[j].failed_verifications
            /\ jobs[j].processed_emails <= NumItems(j)
\* the items of job j below index k are left as they are by the step
ItemsBelowUnchanged(j, k) ==
    \A idx \in 1..k :
        idx <= NumItems(j) => jobs'[j].emails_data[idx] = jobs[j].emails_data[idx]

\* C2: a processJob invocation that found the stored cursor at k never changes
\* the status or the result of an item with index < k
C2_RerunKeepsItemsBelowCursor ==
    [][\A w \in Workers :
          wk[w].pc # "idle" => ItemsBelowUnchanged(wk[w].jobId, wk[w].currentIndex)]_vars

\* a rerun that started at cursor >= 1 has persisted the outcome of an item
C2_Witness ==
    /\ ev.op = "item"
    /\ wk["w1"].currentIndex >= 1
    /\ wk["w1"].pc = "loop"
\* the step persists the outcome of an item (lines 273 or 300 of route.ts)
ItemStep == ev'.op = "item"

\* the outcome recorded for the item of the step is error: returned by the
\* lookup, or produced by the per-item catch block
ErrorOutcome(e) == e.outcome \in {"error", "thrown"} \/ e.fault = "write"

\* C3: for each item the worker processes, processedCount increases by exactly
\* one and exactly one of successCount and failCount increases by one:
\* failCount when the outcome is error, successCount for every other outcome
C3_ItemCountedOnce ==
    [][ItemStep =>
          LET j == ev'.job IN
          /\ jobs'[j].processed_emails = jobs[j].processed_emails + 1
          /\ IF ErrorOutcome(ev')
             THEN /\ jobs'[j].failed_verifications = jobs[j].failed_verifications + 1
                  /\ jobs'[j].successful_verifications = jobs[j].successful_verifications
             ELSE /\ jobs'[j].successful_verifications = jobs[j].successful_verifications + 1
                  /\ jobs'[j].failed_verifications = jobs[j].failed_verifications]_vars

\* C4: a manual stop applied to a pending or processing job sets its status to
\* failed and its errorMessage to the stop reason, whatever the cursor is
C4_StopFailsActiveJob ==
    [][ev'.op = "stop" =>
          \A j \in JobIds :
              (/\ jobs[j].exists
               /\ jobs[j].user_id = ev'.by
               /\ jobs[j].status \in {"pending", "processing"})
              => /\ jobs'[j].status = "failed"
                 /\ jobs'[j].error_message = STOP_REASON]_vars

\* a job stopped with the cursor strictly between 0 and len(items)
C4_Witness ==
    /\ ev.op = "stop"
    /\ jobs["j1"].status = "failed"
    /\ jobs["j1"].error_message = STOP_REASON
    /\ 0 < Cursor("j1")
    /\ Cursor("j1") < NumItems("j1")

\* C5: stop leaves the status and the errorMessage of a completed or failed job
\* unchanged, and a second stop changes nothing of what the first produced
C5_StopIdempotent ==
    [][ev'.op = "stop" =>
          \A j \in JobIds :
              /\ jobs[j].status \in {"completed", "failed"}
                    => /\ jobs'[j].status = jobs[j].status
                       /\ jobs'[j].error_message = jobs[j].error_message
              /\ StopJob(jobs'[j], ev'.by) = jobs'[j]]_vars

\* a stop applied to a completed job
C5_Witness ==
    /\ ev.op = "stop"
    /\ jobs["j1"].status = "completed"
    /\ jobs["j1"].error_message = "null"

\* C6: no step moves a job from completed or failed to another status, and
\* only the recovery sweep moves a job from processing back to pending
C6_StatusMonotonic ==
    [][\A j \in JobIds :
          /\ jobs[j].status \in {"completed", "failed"}
                => jobs'[j].status = jobs[j].status
          /\ (jobs[j].status = "processing" /\ jobs'[j].status = "pending")
                => ev'.op = "recover"]_vars
AllItemsError(j) ==
    \A k \in 1..NumItems(j) : jobs[j].emails_data[k].status = "error"

\* C7: the failure of an item never changes the job's status: the item is
\* recorded as error and the cursor moves past it; a job all of whose items
\* fail ends completed with successCount = 0 and failCount = len(items)
C7_ItemFailureIsolated ==
    /\ [][(ItemStep /\ ErrorOutcome(ev')) =>
             LET j == ev'.job IN
             /\ jobs'[j].status = jobs[j].status
             /\ jobs'[j].emails_data[ev'.idx + 1].status = "error"
             /\ jobs'[j].current_index = ev'.idx + 1]_vars
    /\ [](\A j \in JobIds :
             (jobs[j].status = "completed" /\ AllItemsError(j))
             => /\ jobs[j].successful_verifications = 0
                /\ jobs[j].failed_verifications = NumItems(j))

C9_TerminalItemsNeverReprocessed ==
    [][\A j \in JobIds :
          /\ (ev'.op = "mark" /\ ev'.job = j)
                => ~Terminal(jobs[j].emails_data[ev'.idx + 1])
          /\ \A k \in 1..NumItems(j) :
                Terminal(jobs[j].emails_data[k])
                => jobs'[j].emails_data[k] = jobs[j].emails_data[k]
          /\ jobs'[j].processed_emails <= NumItems(j)]_vars

\* C10: a job whose worker died and that was reset to pending and run again
\* ends completed with every item terminal and processedCount = len(items)
C10_ResumedJobCompletesAll ==
    \A j \in JobIds :
        (jobs[j].status = "completed" /\ jobs[j].retries >= 1)
        => /\ \A k \in 1..NumItems(j) : Terminal(jobs[j].emails_data[k])
           /\ jobs[j].processed_emails = NumItems(j)
\* the job is stuck: processing, with updated_at older than the threshold
Stuck(j) == jobs[j].exists /\ jobs[j].status = "processing" /\ jobs[j].stale

TriggerCount(t) == t.queued + t.direct

\* C11: a recovery sweep leaves every stale processing job either pending, with
\* its cursor, items and aggregates as they were, or failed with reason
\* "stalled"; it never leaves it processing, never deletes it, and changes no
\* job that is not stale or not processing
C11_SweepHandlesStaleJobs ==
    [][ev'.op = "recover" =>
          \A j \in JobIds :
              /\ jobs'[j].exists = jobs[j].exists
              /\ IF Stuck(j)
                 THEN \/ /\ jobs'[j].status = "pending"
                         /\ jobs'[j].current_index = jobs[j].current_index
                         /\ jobs'[j].emails_data = jobs[j].emails_data
                         /\ jobs'[j].processed_emails = jobs[j].processed_emails
                         /\ jobs'[j].successful_verifications =
                                jobs[j].successful_verifications
                         /\ jobs'[j].failed_verifications =
                                jobs[j].failed_verifications
                      \/ /\ jobs'[j].status = "failed"
                         /\ jobs'[j].error_message = STALLED
                 ELSE jobs'[j] = jobs[j]]_vars

\* a job reset by the sweep after one of its two items had been processed
C11_Witness ==
    /\ ev.op = "recover"
    /\ ev.idx = 1
    /\ jobs["j1"].status = "pending"
    /\ NumItems("j1") = 2
    /\ Cursor("j1") = 1
    /\ jobs["j1"].processed_emails = 1

\* C12: every reset of a job by the sweep uses up one unit of the retry budget
\* stored with the job and issues a worker trigger for the job; a stuck job
\* whose budget is used up is marked failed with reason "stalled"; so a job is
\* reset at most MaxRetries times
C12_ResetsBoundedAndTriggered ==
    /\ [][ev'.op = "recover" =>
             \A j \in JobIds :
                 /\ (jobs[j].status = "processing" /\ jobs'[j].status = "pending")
                       => /\ jobs'[j].retries = jobs[j].retries + 1
                          /\ TriggerCount(triggers'[j]) = TriggerCount(triggers[j]) + 1
                 /\ (Stuck(j) /\ jobs[j].retries >= MaxRetries)
                       => /\ jobs'[j].status = "failed"
                          /\ jobs'[j].error_message = STALLED]_vars
    /\ [](\A j \in JobIds : jobs[j].retries <= MaxRetries)

\* a job failed as stalled after its budget was used up, every reset triggered
C12_Witness ==
    /\ ev.op = "recover"
    /\ jobs["j1"].status = "failed"
    /\ jobs["j1"].error_message = STALLED
    /\ jobs["j1"].retries = MaxRetries
    /\ triggers["j1"].queued = MaxRetries

\* an accepted job that is not terminal and that no worker is running
Orphaned(j) ==
    /\ jobs[j].exists
    /\ jobs[j].status \in {"pending", "processing"}
    /\ \A w \in Workers : wk[w].jobId # j

\* the sweep has just selected a job and left job j reset or failed as stalled
PickedUp(j) ==
    /\ ev.op = "recover"
    /\ ev.idx > 0
    /\ \/ jobs[j].status = "pending"
       \/ jobs[j].status = "failed" /\ jobs[j].error_message = STALLED

\* C13: an accepted job whose worker died or was never started does not stay
\* that way for ever: the sweep eventually selects it and resets or fails it
C13_OrphanedJobPickedUp ==
    \A j \in JobIds : Orphaned(j) ~> (PickedUp(j) \/ ~Orphaned(j))
\* the step is the continuation of a poll of polling loop c
Polled(c) == ev'.op = "polled" /\ ev'.idx = c

C15_PollerStops ==
    [][page.halted => ~ev'.read]_vars
\* the step is a submission, accepted or not
Submission == ev'.op \in {"submit", "reject"}

\* the step creates job j, in the table or at the backend API
CreatedInTable(j) == ~jobs[j].exists /\ jobs'[j].exists

CreatedAtBackend(j) == ~backend[j].exists /\ backend'[j].exists

\* C16: a submission of an empty list, or of something that is no array,
\* creates no job, dispatches no worker and returns no job id, on every path
C16_EmptyBatchRejected ==
    [][(Submission /\ ev'.idx = 0) =>
          /\ jobs' = jobs
          /\ backend' = backend
          /\ triggers' = triggers
          /\ ~resp'.ok
          /\ resp'.jobId = "none"]_vars

\* an empty submission of a user with credits was rejected by submitBulkFinderJob
C16_Witness ==
    /\ ev.op = "reject"
    /\ ev.by = "u1"
    /\ ev.idx = 0
    /\ resp.op = "finder"
    /\ ~resp.ok
    /\ credits.find = MaxCredits
    /\ ~backend["j1"].exists

\* C17: a job is created only when the owner's credits for its kind are at
\* least the number of its items, and a submission rejected for quota writes
\* nothing and dispatches nothing
C17_NoJobWithoutQuota ==
    [][/\ \A j \in JobIds :
             /\ CreatedInTable(j) => credits.verify >= Len(jobs'[j].emails_data)
             /\ CreatedAtBackend(j) => credits[backend'[j].kind] >= backend'[j].total
       /\ (ev'.op = "reject" /\ ev'.fault \in {"quota", "credits"})
             => /\ jobs' = jobs
                /\ backend' = backend
                /\ triggers' = triggers]_vars

AcceptedAndDispatched ==
    /\ resp'.ok
    /\ resp'.jobId = ev'.job
    /\ resp'.op = "finder" =>
          /\ triggers'[ev'.job].direct = triggers[ev'.job].direct
                + (IF ev'.outcome \in {"false", "throws"} THEN 1 ELSE 0)
          /\ triggers'[ev'.job].queued = triggers[ev'.job].queued
                + (IF ev'.outcome = "true" THEN 1 ELSE 0)

ForeignRequest(j) ==
    /\ jobs[j].exists
    /\ ev'.op \in {"get", "stop", "trigger"}
    /\ ev'.by \in Accounts
    /\ ev'.by # jobs[j].user_id

\* C20: a request of user A leaves a job of user B as it is; a status read
\* with its id answers not found, and a trigger request with its id starts
\* no worker for it
C20_NoCrossTenantAccess ==
    [][\A j \in JobIds :
          ForeignRequest(j) =>
             /\ jobs'[j] = jobs[j]
             /\ (ev'.op = "get" /\ ev'.job = j) =>
                    (~resp'.ok /\ resp'.reason = "notfound")
             /\ (ev'.op = "trigger" /\ ev'.job = j) => wk' = wk]_vars
\* the step is a request sent without a signed-in user; a submission counts
\* when its item list is well-formed
AnonymousRequest ==
    /\ ev'.by = "none"
    /\ \/ ev'.op \in {"get", "list", "stop", "trigger"}
       \/ ev'.op = "reject" /\ ev'.idx >= 1

\* C21: a request without a signed-in user answers Unauthorized and leaves
\* the jobs, the create requests, the triggers and the workers as they were
C21_AnonymousRequestRejected ==
    [][AnonymousRequest =>
          /\ ~resp'.ok
          /\ resp'.reason = "unauthorized"
          /\ jobs' = jobs
          /\ backend' = backend
          /\ triggers' = triggers
          /\ wk' = wk]_vars
\* C22: a status read of a signed-in owner for an existing job of theirs
\* answers success with the stored status, counts, items, error message and
\* completion time, unless the fetch failed; every other status read answers
\* an error
C22_StatusReadReturnsJob ==
    [][ev'.op = "get" =>
          IF /\ ev'.by \in Accounts
             /\ FindOwned(ev'.job, ev'.by)
             /\ ev'.fault = "none"
          THEN /\ resp'.ok
               /\ resp'.jobId = ev'.job
               /\ resp'.job = Summary(jobs[ev'.job])
          ELSE ~resp'.ok]_vars
\* the lookup of the given kind has returned a result built from a thrown failure
FailedLookup(kind) ==
    /\ lookup.kind = kind
    /\ lookup.pc = "done"
    /\ lookup.result.thrown

\* the retry contract: at most maxRetries attempts, every failed attempt but
\* the last followed by a delay of 2^attempt seconds, an error result from a
\* thrown failure only after the last attempt has failed, and a response
\* answered by the attempt that obtained it
RetryContract(kind, waitedBefore) ==
    lookup.kind = kind =>
        /\ lookup.attempt \in 1..maxRetries
        /\ lookup.waited =
              waitedBefore \o [k \in 1..(lookup.attempt - 1) |-> 2 ^ k * 1000]
        /\ lookup.pc = "attempt" => Len(lookup.causes) = lookup.attempt - 1
        /\ lookup.pc = "wait" => Len(lookup.causes) = lookup.attempt
        /\ FailedLookup(kind) =>
              /\ lookup.attempt = maxRetries
              /\ Len(lookup.causes) = maxRetries
              /\ lookup.result.status = "error"
        /\ (lookup.pc = "done" /\ ~lookup.result.thrown) =>
              Len(lookup.causes) = lookup.attempt - 1

\* C23: findEmailReal makes at most 3 attempts, sleeps 2 s and then 4 s
\* between them, returns the error result of a thrown failure only after the
\* 3rd failed attempt, and returns at once when an attempt gets a response
C23_FindRetries == RetryContract("find", <<>>)

\* findEmailReal has failed three times, the last time by a timeout
C23_Witness ==
    /\ FailedLookup("find")
    /\ lookup.causes = <<"refused", "500", "timeout">>
    /\ lookup.waited = <<2000, 4000>>
    /\ lookup.result.message = "Request timed out after 30 seconds"

\* C24: verifyEmailReal keeps the retry contract of findEmailReal, and the
\* reason of its error result tells a timeout, a refused connection and a
\* rate-limit response apart
C24_VerifyRetriesAndReasons ==
    /\ RetryContract("verify", <<1000>>)
    /\ FailedLookup("verify") =>
          \A cause \in {"timeout", "refused", "429"} :
              cause # lookup.causes[Len(lookup.causes)] =>
                  lookup.result.message # VerifyFailureReason(cause)
\* C25: in every reachable state a job carries an error message only if its
\* status is failed
C25_ErrorMessageOnlyWhenFailed ==
    \A j \in JobIds :
        (jobs[j].exists /\ jobs[j].error_message # "null") => jobs[j].status = "failed"
\* what a status read or a listing shows of a job the user has stopped
ShownStopped(job) ==
    /\ job.status = "failed"
    /\ job.error_message = STOP_REASON

\* C26: once a job has been stopped, no later step of a worker that was
\* running at the stop changes what reads and listings show of it: status
\* failed with the stop reason
C26_StoppedJobStaysFailed ==
    [][\A j \in JobIds :
          ShownStopped(jobs[j]) =>
             /\ ShownStopped(jobs'[j])
             /\ (ev'.op = "get" /\ ev'.job = j) => ShownStopped(resp'.job)]_vars
\* the step of worker w calls verifyEmail, for the item at index wk'[w].i
LookupInvoked(w) ==
    /\ wk[w].pc = "loop"
    /\ wk'[w].pc = "verify"

\* C27: within one run verifyEmail is called in strictly increasing index
\* order (the loop index is past every index looked up before), only for
\* indices from the cursor read at load on, and only for items that were
\* pending
C27_LookupOrder ==
    [][\A w \in Workers :
          LookupInvoked(w) =>
             /\ wk'[w].i >= wk[w].i
             /\ wk'[w].i >= wk[w].currentIndex
             /\ wk'[w].i < Len(wk[w].emailsData)
             /\ wk[w].emailsData[wk'[w].i + 1].status = "pending"
             /\ wk'[w].currentIndex = wk[w].currentIndex]_vars
       /\ [][\A w \in Workers :
                (wk[w].pc = "verify" /\ wk'[w].pc = "loop") => wk'[w].i = wk[w].i + 1]_vars

\* a run that loaded cursor 0 looks up the item at index 1, the item at index
\* 0 having been left as processing by the run before
C27_Witness ==
    /\ wk["w1"].pc = "verify"
    /\ wk["w1"].currentIndex = 0
    /\ wk["w1"].i = 1
    /\ wk["w1"].emailsData[1].status = "processing"
    /\ wk["w1"].emailsData[2].status = "processing"
\* the step calls processJob with an id that no row of the table carries
CalledForMissing ==
    /\ runs' = runs + 1
    /\ ev'.op \in {"start", "notfound"}
    /\ (ev'.job \notin JobIds \/ ~jobs[ev'.job].exists)

CursorAndCountsUnchanged(j) ==
    /\ jobs'[j].current_index = jobs[j].current_index
    /\ jobs'[j].processed_emails = jobs[j].processed_emails
    /\ jobs'[j].successful_verifications = jobs[j].successful_verifications
    /\ jobs'[j].failed_verifications = jobs[j].failed_verifications

\* C29: the write that marks an item as processing leaves the stored cursor
\* and the aggregates as they are; the cursor changes only in the write that
\* persists the outcome of an item, which sets it to the index of that item + 1
C29_CursorMovesWithOutcome ==
    [][\A j \in JobIds :
          /\ (ev'.op = "mark" /\ ev'.job = j) => CursorAndCountsUnchanged(j)
          /\ (jobs[j].exists /\ jobs'[j].current_index # jobs[j].current_index) =>
                /\ ev'.op = "item"
                /\ ev'.job = j
                /\ jobs'[j].current_index = ev'.idx + 1]_vars
\* a poll is scheduled or in flight in polling loop c
Polling(c) == page'.chains[c].pc \in {"timer", "inflight"}

\* C30: as long as no poll has observed completed or failed and the user has
\* not stopped the job, every poll is followed by another one: a failed poll
\* schedules the next poll of its loop, however many polls have failed in a
\* row, and after a successful poll of an active job a poll is scheduled or
\* in flight
C30_PollerNeverGivesUp ==
    [][\A c \in 1..MaxChains :
          (Polled(c) /\ ~page.halted) =>
             /\ ev'.outcome = "fail" =>
                   /\ Polling(c)
                   /\ page'.chains[c].retryCount = page.chains[c].retryCount + 1
                   /\ Active(page'.currentJob)
             /\ Active(ev'.outcome) =>
                   /\ \E d \in 1..MaxChains : Polling(d)
                   /\ Active(page'.currentJob)]_vars

\* the next poll is scheduled after MaxFails failed polls in a row
C30_Witness ==
    /\ ev.op = "polled"
    /\ ev.outcome = "fail"
    /\ ~page.halted
    /\ \E c \in 1..MaxChains :
          /\ page.chains[c].pc = "timer"
          /\ page.chains[c].retryCount = MaxFails
          /\ page.chains[c].pollInterval = MAX_DELAY
\* the step is a submission whose job could not be created: the create
\* request of the backend API, or the insert into the table, failed
CreationFailed == ev'.op = "reject" /\ ev'.fault \in {"create", "insert"}

\* C31: a submission whose job record could not be created answers a failure
\* without a job id, and issues no worker trigger: nothing is enqueued, no
\* worker is invoked, and no job exists that did not exist before
C31_FailedCreateDispatchesNothing ==
    [][CreationFailed =>
          /\ ~resp'.ok
          /\ resp'.jobId = "none"
          /\ triggers' = triggers
          /\ wk' = wk
          /\ runs' = runs
          /\ jobs' = jobs
          /\ backend' = backend]_vars

\* submitBulkVerificationJob was refused by the create request, the list
\* being well-formed and the credits sufficient
C31_Witness ==
    /\ ev.op = "reject"
    /\ ev.fault = "create"
    /\ ev.by = "u1"
    /\ ev.idx = MaxItems
    /\ resp.op = "verify"
    /\ ~resp.ok
    /\ resp.jobId = "none"
    /\ credits.verify >= MaxItems
    /\ \A j \in JobIds : triggers[j] = NoTrigger /\ ~backend[j].exists
\* what the last attempt of the lookup in progress threw
LastCause == lookup.causes[Len(lookup.causes)]

\* C32: findEmailReal never throws: a call is in an attempt, in a backoff
\* or has returned, and what it returns has status valid, invalid or error;
\* the message of a result built after the last attempt failed is the timeout
\* message when the request was aborted, else the connection message when
\* the connection was refused or the fetch failed, else the rate-limit
\* message when the error mentions 429 or rate limit, else the generic one
C32_FindNeverThrows ==
    lookup.kind = "find" =>
        /\ lookup.pc \in {"attempt", "wait", "done"}
        /\ lookup.pc = "done" =>
              /\ lookup.result.status \in {"valid", "invalid", "error"}
              /\ lookup.result.thrown =>
                    /\ lookup.result.status = "error"
                    /\ lookup.result.message =
                          CASE isTimeout(LastCause) ->
                                 "Request timed out after 30 seconds"
                            [] ~isTimeout(LastCause) /\ isConnectionRefused(LastCause) ->
                                 "Unable to connect to email finder service"
                            [] /\ ~isTimeout(LastCause)
                               /\ ~isConnectionRefused(LastCause)
                               /\ MentionsRateLimit(LastCause) ->
                                 "Rate limit exceeded - too many requests"
                            [] OTHER -> "Failed to find email due to API error"

\* the last attempt failed by a fetch failure whose message mentions 429: the
\* result carries the connection message
C32_Witness ==
    /\ FailedLookup("find")
    /\ LastCause = "refused429"
    /\ lookup.causes[1] = "429"
    /\ lookup.result.status = "error"
    /\ lookup.result.message = "Unable to connect to email finder service"
\* the inputs of the items of a row, in order: its length is the number of
\* items
ItemInputs(job) == [k \in 1..Len(job.emails_data) |-> job.emails_data[k].id]

\* C33: no step changes the number of items of an existing job, their order
\* or their inputs: worker writes, the stop and the sweep change the status
\* and the result of items only, and the inputs are those of the submission
C33_ItemInputsFixed ==
    /\ [][\A j \in JobIds :
             jobs[j].exists => ItemInputs(jobs'[j]) = ItemInputs(jobs[j])]_vars
    /\ [](\A j \in JobIds :
             jobs[j].exists =>
                 ItemInputs(jobs[j]) = [k \in 1..NumItems(j) |-> k - 1])

\* a job of two items that was stopped, whose first item got a result and
\* whose second item was recorded by the per-item catch block
C33_Witness ==
    /\ ev.op = "complete"
    /\ NumItems("j1") = 2
    /\ jobs["j1"].error_message = STOP_REASON
    /\ jobs["j1"].emails_data[1].status = "valid"
    /\ jobs["j1"].emails_data[2].result.reason = "Processing failed"
    /\ ItemInputs(jobs["j1"]) = <<0, 1>>
\* the number of items of job j with a terminal status
TerminalCount(j) ==
    Cardinality({k \in 1..NumItems(j) : Terminal(jobs[j].emails_data[k])})

\* C34: in every reachable state the processed count of a job is the number
\* of its items whose status is neither pending nor processing
C34_ProcessedCountsTerminalItems ==
    \A j \in JobIds :
        jobs[j].exists => jobs[j].processed_emails = TerminalCount(j)
\* C35: whenever a job is completed, every one of its items is terminal and
\* its processed count and its cursor both equal the number of its items,
\* whatever runs, crashes, sweeps and re-runs came before
C35_CompletedMeansAllDone ==
    \A j \in JobIds :
        jobs[j].status = "completed" =>
            /\ \A k \in 1..NumItems(j) : Terminal(jobs[j].emails_data[k])
            /\ jobs[j].processed_emails = NumItems(j)
            /\ Cursor(j) = NumItems(j)
\* the cursor of job j splits its items: terminal below it, pending above it
CursorSplitsItems(j) ==
    \A k \in 1..NumItems(j) :
        /\ k - 1 < Cursor(j) => Terminal(jobs[j].emails_data[k])
        /\ k - 1 > Cursor(j) => jobs[j].emails_data[k].status = "pending"

\* C36: in every reachable state of a job every item below the cursor is
\* terminal and every item above it is pending, so at most one item is
\* processing, and only the one at the cursor; crashes and resumed runs included
C36_CursorSplitsItems ==
    \A j \in JobIds :
        jobs[j].exists =>
            /\ CursorSplitsItems(j)
            /\ \A k \in 1..NumItems(j) :
                  jobs[j].emails_data[k].status = "processing" => k - 1 = Cursor(j)
\* a processJob invocation for job j has fetched its row and has not returned
RunStarted(j) == \E w \in Workers : wk[w].pc # "idle" /\ wk[w].jobId = j

\* C37: when no store request throws, no process dies, nobody stops a job
\* and every step of a started invocation is taken at some time, a job for
\* which an invocation has started reaches status completed
C37_StartedJobCompletes ==
    \A j \in JobIds : RunStarted(j) ~> jobs[j].status = "completed"

\* a job of MaxItems items completed by an invocation, after the sweep had
\* reset it while the invocation was running
C37_Witness ==
    /\ ev.op = "complete"
    /\ jobs["j1"].status = "completed"
    /\ jobs["j1"].retries >= 1
    /\ NumItems("j1") = MaxItems
    /\ jobs["j1"].processed_emails >= MaxItems
    /\ runs = 1
\* the step leaves everything of the row but its status, its error message
\* and its updated_at as it was
OnlyStatusChanged(old, new) ==
    new = [old EXCEPT !.status = new.status,
                      !.error_message = new.error_message,
                      !.stale = new.stale]

\* C38: a manual stop changes the status, the error message and updated_at
\* of one job and nothing else: the items, the cursor and the aggregates of
\* that job stay as they were, and so does every other job, of the same
\* owner or of another one
C38_StopChangesOneJob ==
    [][ev'.op = "stop" =>
          /\ \A j \in DOMAIN jobs :
                /\ OnlyStatusChanged(jobs[j], jobs'[j])
                /\ jobs[j].user_id # ev'.by => jobs'[j] = jobs[j]
          /\ Cardinality({j \in DOMAIN jobs : jobs'[j] # jobs[j]}) <= 1]_vars
\* the polling loops of the page that have a request in flight or a timer
\* scheduled
LiveChains == {c \in 1..MaxChains : page.chains[c].pc # "none"}

====
